---- MODULE Spec2Model ----
(***************************************************************************)
(* A model of the ETL helper layer: DbConnection (src/db_connection.py)    *)
(* and AmgCursor (src/amg_cursor.py).                                      *)
(*                                                                         *)
(* Part 1 models the import ledger (the imports table, the identity cache  *)
(* of one DbConnection and the ledger calls).  Every SQL statement is a    *)
(* pure operator on the table; a ledger call is the composition of the     *)
(* statements it issues, in the order the code issues them.                *)
(***************************************************************************)
EXTENDS Integers, Sequences, FiniteSets, TLC

VARIABLES
    imports,    \* the rows of <media_schema>.imports<table_append>
    nextId,     \* the next surrogate key the server assigns
    cache,      \* DbConnection.cache['filename_to_import_id']
    now,        \* the server clock GETDATE() reads
    last        \* what the last step called and what it raised

ledgerVars == <<imports, nextId, cache, now, last>>

VARIABLES
    source,     \* the rows of source_table (the staging data)
    target,     \* the rows of target_table
    before,     \* target_table when the current upsert call began
    uargs,      \* the arguments of the current upsert call
    col_list,   \* the list object the caller passes as col_list
    phase,      \* where the current upsert call stands
    run,        \* 1 in the first upsert call, 2 in a call repeated after it
                \* returned, 3 in a call repeated after it raised
    rowcount,   \* cursor.rowcount after the last statement
    autocommit  \* .autocommit of the connection the cursor belongs to

upsertVars ==
    <<source, target, before, uargs, col_list, phase, run, rowcount, autocommit>>

\* The connection manager of one DbConnection instance.
VARIABLES
    conn,       \* self.conn: None, or the index in opened of a connection
    opened,     \* .closed of every connection psycopg2.connect has returned
    cur,        \* the cursor the latest new_cursor returned
    cdone       \* the latest connection-manager call and how it ended

connVars == <<conn, opened, cur, cdone>>

\* The statements AmgCursor.execute hands to the driver.
VARIABLES
    wire,       \* the statements sent to the server, oldest first
    rdone       \* the latest execute call and how it ended

renderVars == <<wire, rdone>>

\* Processes that work on the same tables through connections of their own.
VARIABLES
    procs,      \* the processes running update_media_import on imports
    peers       \* the processes running upsert on target_table

raceVars == <<procs, peers>>

restVars == <<renderVars, raceVars>>

vars == <<ledgerVars, upsertVars, connVars, restVars>>

notLedger == <<upsertVars, connVars, restVars>>

(***************************** bounds ***************************************)
MaxId == 1          \* rows the connection itself may insert
MaxClock == 2       \* the last instant of the server clock
MaxExternal == 1    \* rows another writer may insert on top of MaxId
MaxRows == 3        \* rows of source_table and target_table together
MaxConns == 3       \* connections one instance opens
MaxSent == 2        \* statements sent to the server

(***************************** values ***************************************)
None == 0          \* Python None / SQL NULL (ids and times start at 1)
DEFAULT_AUTOCOMMIT == TRUE
NoExc == "none"
NoRecordYet == "Exception: Cannot change status. No record exists yet."
MultipleRecords == "Exception: associated with multiple import records"
DriverError == "psycopg2.Error"
OtherError == "non-driver error"

DataSources == {"COMSCORE", "fyi"}
FileNames == {"a.csv", "b.csv"}
FileDates == {"2017-01-01"}
Statuses == {"STARTED", "SUCCESS", "FAIL", "SKIPPED", "UNKNOWN"}
StatusArgs == Statuses
Outcomes == {"ok", "dberror", "othererror"}

\* str.upper() on the strings of the model
Upper(s) ==
    CASE s = "fyi" -> "FYI"
      [] s = "started" -> "STARTED"
      [] OTHER -> s

(************************ statements on the table ***************************)
\* SELECT id FROM imports WHERE source = data_source AND file_name = file_name
SelectIds(tbl, data_source, file_name) ==
    {r.id : r \in {q \in tbl : q.source = data_source /\ q.file_name = file_name}}

\* The mutant of InsertImport that inserts no second row for an identity.
InsertImportIfAbsent(tbl, id, file_name, data_source, file_date, status, file_path) ==
    IF \E r \in tbl : r.source = data_source /\ r.file_name = file_name
    THEN tbl
    ELSE tbl \cup {[id |-> id, file_name |-> file_name, source |-> data_source,
                    file_date |-> file_date, status |-> status,
                    file_path |-> file_path, time_imported |-> None]}

\* INSERT INTO imports (file_name, source, file_date, status, file_path)
InsertImport(tbl, id, file_name, data_source, file_date, status, file_path) ==
    tbl \cup {[id |-> id, file_name |-> file_name, source |-> data_source,
               file_date |-> file_date, status |-> status,
               file_path |-> file_path, time_imported |-> None]}

\* The mutant of UpdateStatus that stamps whatever the status is.
UpdateStatusAlwaysStamps(tbl, import_id, status, t) ==
    {IF r.id = import_id
        THEN [r EXCEPT !.status = status, !.time_imported = t]
        ELSE r : r \in tbl}

\* UPDATE imports SET status = status [, time_imported = GETDATE()] WHERE id = import_id
UpdateStatus(tbl, import_id, status, t) ==
    {IF r.id = import_id
        THEN IF status = "STARTED"
                THEN [r EXCEPT !.status = status, !.time_imported = t]
                ELSE [r EXCEPT !.status = status]
        ELSE r : r \in tbl}

\* UPDATE imports SET status = new_status WHERE id IN import_ids_list
UpdateStatusIn(tbl, import_ids_list, new_status) ==
    {IF r.id \in import_ids_list THEN [r EXCEPT !.status = new_status] ELSE r
        : r \in tbl}

\* SELECT file_name FROM imports WHERE source = .. AND (status = 'SUCCESS' OR status = 'SKIPPED')
SelectImported(tbl, data_source) ==
    {r.file_name : r \in {q \in tbl : q.source = data_source
                                        /\ q.status \in {"SUCCESS", "SKIPPED"}}}

(***************************** ledger calls *********************************)
\* The mutant of GetMediaImportId that returns the first of several rows.
GetMediaImportIdPicksOne(tbl, c, data_source, file_name) ==
    IF file_name \in DOMAIN c
    THEN [ret |-> c[file_name], exc |-> NoExc, cache |-> c]
    ELSE LET res == SelectIds(tbl, Upper(data_source), file_name) IN
         IF Cardinality(res) = 0
         THEN [ret |-> None, exc |-> NoExc, cache |-> c]
         ELSE LET import_id == CHOOSE i \in res : \A j \in res : i <= j IN
              [ret |-> import_id, exc |-> NoExc,
               cache |-> (file_name :> import_id) @@ c]

\* DbConnection.get_media_import_id: [ret, exc, cache]
GetMediaImportId(tbl, c, data_source, file_name) ==
    IF file_name \in DOMAIN c
    THEN [ret |-> c[file_name], exc |-> NoExc, cache |-> c]
    ELSE LET res == SelectIds(tbl, Upper(data_source), file_name) IN
         IF Cardinality(res) = 0
         THEN [ret |-> None, exc |-> NoExc, cache |-> c]
         ELSE IF Cardinality(res) > 1
         THEN [ret |-> None, exc |-> MultipleRecords, cache |-> c]
         ELSE LET import_id == CHOOSE i \in res : TRUE IN
              [ret |-> import_id, exc |-> NoExc,
               cache |-> (file_name :> import_id) @@ c]

\* The condition of the first branch of update_media_import (line 272).
\* Its mutant lets every status create a record.
MayCreateAnyStatus(import_id, status) ==
    import_id = None

MayCreate(import_id, status) ==
    import_id = None /\ Upper(status) \in {"STARTED", "SKIPPED"}

\* DbConnection.update_media_import: [tbl, nextId, cache, ret, exc]
UpdateMediaImport(tbl, nid, c, t, data_source, file_name, file_date, status, file_path) ==
    LET src == Upper(data_source)
        g1 == GetMediaImportId(tbl, c, src, file_name)
    IN  IF g1.exc # NoExc
        THEN [tbl |-> tbl, nextId |-> nid, cache |-> g1.cache,
              ret |-> None, exc |-> g1.exc]
        ELSE IF MayCreate(g1.ret, status)
        THEN LET tbl2 == InsertImport(tbl, nid, file_name, src, file_date,
                                      Upper(status), file_path)
                 g2 == GetMediaImportId(tbl2, g1.cache, src, file_name)
             IN  [tbl |-> tbl2, nextId |-> nid + 1, cache |-> g2.cache,
                  ret |-> g2.ret, exc |-> g2.exc]
        ELSE IF g1.ret = None
        THEN [tbl |-> tbl, nextId |-> nid, cache |-> g1.cache,
              ret |-> None, exc |-> NoRecordYet]
        ELSE [tbl |-> UpdateStatus(tbl, g1.ret, status, t), nextId |-> nid,
              cache |-> g1.cache, ret |-> g1.ret, exc |-> NoExc]

\* The status run_ingest_queries writes, and the exception in flight, for each
\* way execute_sql_file can end (lines 370-377).
IngestStatus(outcome) ==
    CASE outcome = "ok" -> "SUCCESS"
      [] outcome = "dberror" -> "FAIL"
      [] OTHER -> "UNKNOWN"

IngestPending(outcome) ==
    CASE outcome = "ok" -> NoExc
      [] outcome = "dberror" -> DriverError
      [] OTHER -> OtherError

\* The finally loop of run_ingest_queries from element i of list_of_files on:
\* [tbl, nextId, cache, exc, written], written the indices whose write was
\* applied.  An exception of update_media_import leaves the loop.
RECURSIVE IngestLoop(_, _, _, _, _, _, _, _, _)
IngestLoop(tbl, nid, c, t, data_source, status, list_of_files, i, written) ==
    IF i > Len(list_of_files)
    THEN [tbl |-> tbl, nextId |-> nid, cache |-> c, exc |-> NoExc,
          written |-> written]
    ELSE LET u == UpdateMediaImport(tbl, nid, c, t, data_source,
                                    list_of_files[i][1], list_of_files[i][2],
                                    status, "")
         IN  IF u.exc # NoExc
             THEN [tbl |-> u.tbl, nextId |-> u.nextId, cache |-> u.cache,
                   exc |-> u.exc, written |-> written]
             ELSE IngestLoop(u.tbl, u.nextId, u.cache, t, data_source, status,
                             list_of_files, i + 1, Append(written, i))

\* DbConnection.run_ingest_queries: [tbl, nextId, cache, exc, written].
\* An exception raised inside the finally block replaces the one in flight.
RunIngestQueries(tbl, nid, c, t, data_source, outcome, list_of_files) ==
    LET l == IngestLoop(tbl, nid, c, t, Upper(data_source),
                        IngestStatus(outcome), list_of_files, 1, <<>>)
    IN  [l EXCEPT !.exc = IF l.exc # NoExc THEN l.exc ELSE IngestPending(outcome)]

\* The mutant of GetImportedFiles that leaves SKIPPED files out.
GetImportedFilesSuccessOnly(tbl, data_source) ==
    {r.file_name : r \in {q \in tbl : q.source = Upper(data_source)
                                        /\ q.status = "SUCCESS"}}

\* DbConnection.get_imported_files: the set it returns.
GetImportedFiles(tbl, data_source) ==
    SelectImported(tbl, Upper(data_source))

(******************************* actions ************************************)
\* What the last step called and what it raised.
Called(op, exc) == [op |-> op, exc |-> exc]

\* list_of_files arguments of run_ingest_queries: (file_name, file_date) pairs
FileLists ==
    {<<>>,
     << <<"a.csv", "2017-01-01">> >>,
     << <<"a.csv", "2017-01-01">>, <<"b.csv", "2017-01-01">> >>,
     << <<"b.csv", "2017-01-01">>, <<"a.csv", "2017-01-01">> >>}

LedgerInit ==
    /\ imports = {}
    /\ nextId = 1
    /\ cache = <<>>
    /\ now = 1
    /\ last = Called("init", NoExc)

\* No upsert is under way.
UpsertIdle ==
    /\ source = <<>>
    /\ target = <<>>
    /\ before = <<>>
    /\ uargs = <<>>
    /\ col_list = <<>>
    /\ phase = "idle"
    /\ run = 0
    /\ rowcount = 0
    /\ autocommit = DEFAULT_AUTOCOMMIT

Tick ==
    /\ now < MaxClock
    /\ now' = now + 1
    /\ last' = Called("tick", NoExc)
    /\ UNCHANGED <<imports, nextId, cache>>
    /\ UNCHANGED notLedger

CallGetMediaImportId(data_source, file_name) ==
    LET g == GetMediaImportId(imports, cache, data_source, file_name) IN
    /\ cache' = g.cache
    /\ last' = Called("get_media_import_id", g.exc)
    /\ UNCHANGED <<imports, nextId, now>>
    /\ UNCHANGED notLedger

CallUpdateMediaImport(data_source, file_name, file_date, status) ==
    LET u == UpdateMediaImport(imports, nextId, cache, now, data_source,
                               file_name, file_date, status, "") IN
    /\ u.nextId <= MaxId + 1
    /\ imports' = u.tbl
    /\ nextId' = u.nextId
    /\ cache' = u.cache
    /\ last' = Called("update_media_import", u.exc)
    /\ UNCHANGED now
    /\ UNCHANGED notLedger

CallUpdateMediaImports(import_ids_list, new_status) ==
    /\ imports' = UpdateStatusIn(imports, import_ids_list, new_status)
    /\ last' = Called("update_media_imports", NoExc)
    /\ UNCHANGED <<nextId, cache, now>>
    /\ UNCHANGED notLedger

CallGetImportedFiles(data_source) ==
    /\ last' = Called("get_imported_files", NoExc)
    /\ UNCHANGED <<imports, nextId, cache, now>>
    /\ UNCHANGED notLedger

CallRunIngestQueries(data_source, outcome, list_of_files) ==
    LET r == RunIngestQueries(imports, nextId, cache, now, data_source,
                              outcome, list_of_files) IN
    /\ r.nextId <= MaxId + 1
    /\ imports' = r.tbl
    /\ nextId' = r.nextId
    /\ cache' = r.cache
    /\ last' = Called("run_ingest_queries", r.exc)
    /\ UNCHANGED now
    /\ UNCHANGED notLedger

\* One call on the DbConnection, its arguments drawn from the given sets.
LedgerCall(sources, names, statuses, lists) ==
    \/ \E s \in sources, f \in names : CallGetMediaImportId(s, f)
    \/ \E s \in sources, f \in names, d \in FileDates, st \in statuses :
           CallUpdateMediaImport(s, f, d, st)
    \/ \E ids \in SUBSET {r.id : r \in imports}, st \in statuses :
           ids # {} /\ CallUpdateMediaImports(ids, st)
    \/ \E s \in sources : CallGetImportedFiles(s)
    \/ \E s \in sources, o \in Outcomes, fs \in lists :
           CallRunIngestQueries(s, o, fs)

LedgerNext ==
    \/ Tick
    \/ LedgerCall(DataSources, FileNames, StatusArgs, FileLists)

\* No cursor has been returned yet.
NoCursor == [of |-> None, closed |-> TRUE]

\* Lines 59-60: a new instance has no connection.
ConnInit ==
    /\ conn = None
    /\ opened = <<>>
    /\ cur = NoCursor
    /\ cdone = [op |-> "init", exc |-> NoExc, reconnected |-> FALSE]

\* execute called with q_vars left at its default, None.
NoParams == [given |-> FALSE, map |-> <<>>]

\* Nothing has been executed.
RenderIdle ==
    /\ wire = <<>>
    /\ rdone = [op |-> "init", query |-> <<>>, q_vars |-> NoParams,
                exc |-> NoExc, sent |-> FALSE]

\* Nothing has been executed, and no other process is at work.
RestIdle ==
    /\ RenderIdle
    /\ procs = <<>>
    /\ peers = <<>>

Init == LedgerInit /\ UpsertIdle /\ ConnInit /\ RestIdle

\* One DbConnection working alone on an imports table that starts empty.
Spec == Init /\ [][LedgerNext]_vars

\* Callers that also write a status in lower case, which the creating branch
\* of update_media_import accepts (lines 272 and 286).
CaseNext ==
    \/ Tick
    \/ LedgerCall(DataSources, FileNames, Statuses \cup {"started"}, FileLists)

SpecCase == Init /\ [][CaseNext]_vars

(********************* a second writer on the same table ********************)
\* The imports table is shared: (source, file_name) is unique by convention
\* only, and another process may insert a row of its own.
ExternalInsert(data_source, file_name, file_date, status) ==
    /\ nextId <= MaxId + MaxExternal
    /\ imports' = InsertImport(imports, nextId, file_name, Upper(data_source),
                               file_date, status, "")
    /\ nextId' = nextId + 1
    /\ last' = Called("external insert", NoExc)
    /\ UNCHANGED <<cache, now>>
    /\ UNCHANGED notLedger

SharedNext ==
    \/ LedgerCall(DataSources, {"a.csv"}, {"STARTED", "SUCCESS"},
                  {<< <<"a.csv", "2017-01-01">> >>})
    \/ \E s \in DataSources, d \in FileDates :
           ExternalInsert(s, "a.csv", d, "STARTED")

\* The DbConnection and a second writer on the same imports table.
SpecShared == Init /\ [][SharedNext]_vars

(***************************************************************************)
(* Claims about the ledger.  A claim about a call is stated over every     *)
(* reachable state and every argument of the call: the call's result is    *)
(* the value of the operator that models it.                               *)
(***************************************************************************)
HasRecord(tbl, data_source, file_name) ==
    SelectIds(tbl, Upper(data_source), file_name) # {}

\* Every row of tbl for (data_source, file_name) has the status, and there is one.
Marked(tbl, data_source, file_name, status) ==
    /\ HasRecord(tbl, data_source, file_name)
    /\ \A r \in tbl : (r.source = Upper(data_source) /\ r.file_name = file_name)
                        => r.status = status

\* C1: for an identity with no ledger record, update_media_import with status
\* SUCCESS, FAIL or UNKNOWN raises the invalid-transition error and leaves the
\* table and the identity cache unchanged.
C1_NoRecordRejected ==
    \A s \in DataSources, f \in FileNames, d \in FileDates,
       st \in {"SUCCESS", "FAIL", "UNKNOWN"} :
        ~HasRecord(imports, s, f) =>
            LET u == UpdateMediaImport(imports, nextId, cache, now, s, f, d, st, "")
            IN  u.exc = NoRecordYet /\ u.tbl = imports /\ u.cache = cache

\* C2: for an identity with no ledger record, update_media_import with STARTED
\* creates exactly one row and returns its non-null id, a later call for the
\* same identity returns the same id and creates no row, and no identity ever
\* has more than one row.
C2_StartedCreatesOneRow ==
    /\ \A s \in DataSources, f \in FileNames :
           Cardinality(SelectIds(imports, Upper(s), f)) <= 1
    /\ \A s \in DataSources, f \in FileNames, d \in FileDates :
        ~HasRecord(imports, s, f) =>
            LET u == UpdateMediaImport(imports, nextId, cache, now, s, f, d,
                                       "STARTED", "")
            IN  /\ u.exc = NoExc
                /\ u.ret # None
                /\ Cardinality(u.tbl) = Cardinality(imports) + 1
                /\ SelectIds(u.tbl, Upper(s), f) = {u.ret}
                /\ \A st \in StatusArgs :
                       LET v == UpdateMediaImport(u.tbl, u.nextId, u.cache, now,
                                                  s, f, d, st, "")
                       IN  v.ret = u.ret /\ Cardinality(v.tbl) = Cardinality(u.tbl)

\* C3: run_ingest_queries with a failing statement marks every listed file
\* FAIL and re-raises the driver error; with a succeeding statement it marks
\* every listed file SUCCESS and returns normally; for every list of files.
C3_IngestMarksEveryFile ==
    \A s \in DataSources, fs \in FileLists :
        LET bad == RunIngestQueries(imports, nextId, cache, now, s, "dberror", fs)
            ok == RunIngestQueries(imports, nextId, cache, now, s, "ok", fs)
        IN  /\ bad.exc = DriverError
            /\ \A i \in 1..Len(fs) : Marked(bad.tbl, s, fs[i][1], "FAIL")
            /\ ok.exc = NoExc
            /\ \A i \in 1..Len(fs) : Marked(ok.tbl, s, fs[i][1], "SUCCESS")

\* C4: whichever way the SQL file execution ends, run_ingest_queries applies
\* exactly one status write for each element of list_of_files, in order, none
\* skipped and none repeated.
C4_IngestWritesOncePerFile ==
    \A s \in DataSources, o \in Outcomes, fs \in FileLists :
        RunIngestQueries(imports, nextId, cache, now, s, o, fs).written
            = [i \in 1..Len(fs) |-> i]

\* C5: when the SQL execution fails with a driver error, the exception that
\* leaves run_ingest_queries is that driver error, raised after the writes for
\* the listed files; no exception of the ledger writes replaces it.
C5_IngestReraisesDriverError ==
    \A s \in DataSources, fs \in FileLists :
        LET r == RunIngestQueries(imports, nextId, cache, now, s, "dberror", fs)
        IN  r.exc = DriverError /\ Len(r.written) = Len(fs)

Ambiguous(tbl, data_source, file_name) ==
    Cardinality(SelectIds(tbl, Upper(data_source), file_name)) >= 2

\* C6 as claimed: whenever two or more rows share one (source, file_name), a
\* lookup of that identity raises the ambiguous-record error and returns no
\* id, whatever the identity cache holds.
C6_AmbiguousAlwaysRaises ==
    \A s \in DataSources, f \in FileNames :
        Ambiguous(imports, s, f) =>
            LET g == GetMediaImportId(imports, cache, s, f)
            IN  g.exc = MultipleRecords /\ g.ret = None

\* C6 as amended: whenever two or more rows share one (source, file_name) and
\* file_name is not in the identity cache, get_media_import_id raises the
\* ambiguous-record error, returns no id and caches none, and so does every
\* update_media_import of that identity, which writes nothing.
C6_AmbiguousRaisesUncached ==
    \A s \in DataSources, f \in FileNames :
        (Ambiguous(imports, s, f) /\ f \notin DOMAIN cache) =>
            /\ GetMediaImportId(imports, cache, s, f)
                   = [ret |-> None, exc |-> MultipleRecords, cache |-> cache]
            /\ \A d \in FileDates, st \in StatusArgs :
                   LET u == UpdateMediaImport(imports, nextId, cache, now, s, f,
                                              d, st, "")
                   IN  /\ u.exc = MultipleRecords
                       /\ u.ret = None
                       /\ u.tbl = imports
                       /\ u.cache = cache

\* A lookup has just raised on an identity that two rows share.
C6_Witness ==
    /\ last = Called("get_media_import_id", MultipleRecords)
    /\ \E s \in DataSources, f \in FileNames :
           Ambiguous(imports, s, f) /\ f \notin DOMAIN cache

(***************************************************************************)
(* Part 2: AmgCursor.upsert.  The method builds the pieces of two SQL      *)
(* statements from its arguments; the statements are then executed on the  *)
(* two tables with SQL's three-valued logic.  A column expression is a     *)
(* record [fns, tbl, col]: column col of table tbl ("s" is the alias of    *)
(* source_table) with the functions fns wrapped around it, the first one   *)
(* innermost.                                                               *)
(***************************************************************************)
Null == "NULL"                    \* SQL NULL in a text column
Vals == {Null, "ab", "AB"}        \* what a text column may hold
Columns == {"k", "v"}             \* the columns of source_table
SourceRows == [k : Vals, v : Vals]
GetDate == [fns |-> <<>>, tbl |-> "", col |-> "GETDATE()"]
ProgrammingError == "psycopg2.ProgrammingError"

\* A SQL function applied to a value; every function here is strict in NULL.
ApplyFn(f, x) ==
    IF x = Null THEN Null
    ELSE CASE f = "UPPER" -> "AB"
           [] f = "LOWER" -> "ab"
           [] OTHER -> x

RECURSIVE ApplyAll(_, _)
ApplyAll(fns, x) ==
    IF fns = <<>> THEN x ELSE ApplyAll(Tail(fns), ApplyFn(Head(fns), x))

\* The value of a column expression for a joined (target row, source row).
Eval(e, t, s, clock) ==
    IF e = GetDate THEN clock
    ELSE ApplyAll(e.fns, IF e.tbl = "s" THEN s[e.col] ELSE t[e.col])

\* SQL's three-valued logic: "T", "F" and "U" (unknown).
Eq3(a, b) == IF a = Null \/ b = Null THEN "U" ELSE IF a = b THEN "T" ELSE "F"
Not3(a) == CASE a = "T" -> "F" [] a = "F" -> "T" [] OTHER -> "U"
And3(a, b) ==
    IF a = "F" \/ b = "F" THEN "F" ELSE IF a = "U" \/ b = "U" THEN "U" ELSE "T"

\* A list of 'left = right' predicates joined by AND.
AllEq(preds, t, s, clock) ==
    LET val(i) == Eq3(Eval(preds[i][1], t, s, clock), Eval(preds[i][2], t, s, clock))
    IN  IF \E i \in DOMAIN preds : val(i) = "F" THEN "F"
        ELSE IF \E i \in DOMAIN preds : val(i) = "U" THEN "U" ELSE "T"

(************************* what upsert generates ****************************)
\* The mutant of WrapFns that puts the first configured function outermost.
WrapFnsOutermostFirst(col_functions, col, e) ==
    IF col \in DOMAIN col_functions
    THEN [e EXCEPT !.fns = [i \in DOMAIN col_functions[col] |->
                               col_functions[col][Len(col_functions[col]) + 1 - i]]
                           \o e.fns]
    ELSE e

\* Lines 108-119: each function configured for col is wrapped around the
\* expression in turn, so the first configured function ends up innermost.
WrapFns(col_functions, col, e) ==
    IF col \in DOMAIN col_functions
    THEN [e EXCEPT !.fns = e.fns \o col_functions[col]]
    ELSE e

\* Lines 88-150: the parameters of the two statements, and col_list as the
\* call leaves it (line 136 extends the caller's list in place).
UpsertSql(a) ==
    LET col(t, c) == [fns |-> <<>>, tbl |-> t, col |-> c]
        target_cols_fn == [i \in DOMAIN a.col_list |->
            WrapFns(a.col_functions, a.col_list[i],
                    col(a.target_table, a.col_list[i]))]
        source_cols_fn == [i \in DOMAIN a.col_list |->
            WrapFns(a.col_functions, a.col_list[i], col("s", a.col_list[i]))]
        target_unique_cols_fn == [i \in DOMAIN a.uniqueness_keys |->
            WrapFns(a.col_functions, a.uniqueness_keys[i],
                    col(a.target_table, a.uniqueness_keys[i]))]
        source_unique_cols_fn == [i \in DOMAIN a.uniqueness_keys |->
            WrapFns(a.col_functions, a.uniqueness_keys[i],
                    col("s", a.uniqueness_keys[i]))]
        stamps == IF a.has_timestamps THEN <<"created_at", "updated_at">> ELSE <<>>
    IN  [unique_predicates |-> [i \in DOMAIN a.uniqueness_keys |->
            <<target_unique_cols_fn[i], source_unique_cols_fn[i]>>],
         identical_row_predicate |-> [i \in DOMAIN a.col_list |->
            <<target_cols_fn[i], source_cols_fn[i]>>],
         update_clause |-> [i \in DOMAIN a.col_list |->
            <<a.col_list[i], source_cols_fn[i]>>]
            \o (IF a.has_timestamps THEN << <<"updated_at", GetDate>> >> ELSE <<>>),
         target_cols |-> a.col_list \o stamps,
         source_cols |-> source_cols_fn \o [i \in DOMAIN stamps |-> GetDate],
         a_join_key |-> col(a.target_table, a.uniqueness_keys[1]),
         col_list |-> a.col_list \o stamps]

(************************ executing the statements **************************)
\* The server rejects a statement that names a column source_table lacks.
Rejected(q) ==
    \E i \in DOMAIN q.identical_row_predicate :
        q.identical_row_predicate[i][2].col \notin Columns

\* UPDATE .. WHERE (unique_predicates) AND NOT (identical_row_predicate)
UpdateWhere(q, t, s, clock) ==
    And3(AllEq(q.unique_predicates, t, s, clock),
         Not3(AllEq(q.identical_row_predicate, t, s, clock))) = "T"

\* The source rows the UPDATE joins to target row t.
UpdateMatches(q, t, src, clock) ==
    {j \in DOMAIN src : UpdateWhere(q, t, src[j], clock)}

\* SET update_clause, evaluated on the joined row (t, s)
Assign(q, t, s, clock) ==
    [c \in DOMAIN t |->
        IF \E i \in DOMAIN q.update_clause : q.update_clause[i][1] = c
        THEN LET i == CHOOSE i \in DOMAIN q.update_clause :
                          q.update_clause[i][1] = c
             IN  Eval(q.update_clause[i][2], t, s, clock)
        ELSE t[c]]

\* What a LEFT JOIN gives for the target side of an unmatched source row.
NullTarget == [k |-> Null, v |-> Null, created_at |-> None, updated_at |-> None]

\* The mutant of InsertSelected without the WHERE a_join_key IS NULL filter.
InsertSelectedNoFilter(q, tgt, s, clock) ==
    TRUE

\* FROM source s LEFT JOIN target ON unique_predicates WHERE a_join_key IS NULL:
\* whether source row s contributes a row to the SELECT.
InsertSelected(q, tgt, s, clock) ==
    LET joined == {i \in DOMAIN tgt :
                       AllEq(q.unique_predicates, tgt[i], s, clock) = "T"}
    IN  IF joined = {} THEN Eval(q.a_join_key, NullTarget, s, clock) = Null
        ELSE \E i \in joined : Eval(q.a_join_key, tgt[i], s, clock) = Null

\* INSERT INTO target (target_cols) SELECT source_cols: the row made of s.
Projected(q, s, clock) ==
    [c \in DOMAIN NullTarget |->
        IF \E i \in DOMAIN q.target_cols : q.target_cols[i] = c
        THEN LET i == CHOOSE i \in DOMAIN q.target_cols : q.target_cols[i] = c
             IN  Eval(q.source_cols[i], NullTarget, s, clock)
        ELSE NullTarget[c]]

\* SELECT DISTINCT: the set of rows the INSERT adds.
InsertRows(q, tgt, src, clock) ==
    {Projected(q, src[j], clock) :
        j \in {j \in DOMAIN src : InsertSelected(q, tgt, src[j], clock)}}

\* The rows of a table are kept in a sequence; a set of new rows is appended
\* in the order of this rank.
ValRank(x) == CASE x = Null -> 0 [] x = "ab" -> 1 [] OTHER -> 2
RowRank(r) == 3 * ValRank(r.k) + ValRank(r.v)

RECURSIVE Appended(_, _)
Appended(tbl, rows) ==
    IF rows = {} THEN tbl
    ELSE LET r == CHOOSE r \in rows : \A o \in rows : RowRank(r) <= RowRank(o)
         IN  Appended(Append(tbl, r), rows \ {r})

(***************************** upsert calls ********************************)
\* col_functions after line 98, where a bare function name has become a
\* one-element list.
ColFunctions ==
    {<<>>,
     [c \in {"k"} |-> <<"UPPER">>],
     [c \in {"v"} |-> <<"UPPER">>],
     [c \in {"k", "v"} |-> <<"UPPER", "LOWER">>]}

ColList == <<"k", "v">>

UpsertArgs ==
    [source_table : {"staging"}, target_table : {"target"},
     uniqueness_keys : {<<"k">>}, col_list : {ColList},
     col_functions : ColFunctions, has_timestamps : BOOLEAN]

Sorted(tbl) == \A i, j \in DOMAIN tbl : i < j => RowRank(tbl[i]) <= RowRank(tbl[j])

Tables(n) == {t \in UNION {[1..m -> SourceRows] : m \in 0..n} : Sorted(t)}

\* The rows of the target table carry the two timestamp columns.
Stored(tbl) ==
    [i \in DOMAIN tbl |->
        [k |-> tbl[i].k, v |-> tbl[i].v, created_at |-> None, updated_at |-> None]]

\* An upsert is about to be called on some pair of tables; col_list is the
\* list object the caller holds.  No ledger call is under way.
UpsertInit ==
    /\ source \in Tables(MaxRows)
    /\ \E t \in Tables(MaxRows - Len(source)) : target = Stored(t)
    /\ before = target
    /\ uargs \in UpsertArgs
    /\ col_list = ColList
    /\ phase = "ready"
    /\ run = 1
    /\ rowcount = 0
    /\ autocommit = DEFAULT_AUTOCOMMIT
    /\ now = 1
    /\ imports = {}
    /\ nextId = 1
    /\ cache = <<>>
    /\ last = Called("init", NoExc)
    /\ ConnInit
    /\ RestIdle

\* Lines 88-164: upsert is called, with the caller's list object or with a
\* fresh list of the same columns, and executes its UPDATE.  A target row
\* joined to several source rows takes its values from any one of them.
UpsertCalled(r) ==
    /\ \E passed \in {ColList, col_list} :
        LET a == [uargs EXCEPT !.col_list = passed]
            q == UpsertSql(a)
            m(i) == UpdateMatches(q, target[i], source, now)
        IN  /\ uargs' = a
            /\ col_list' = IF passed = col_list THEN q.col_list ELSE col_list
            /\ IF Rejected(q)
               THEN /\ phase' = "failed"
                    /\ UNCHANGED <<target, rowcount>>
               ELSE /\ phase' = "updated"
                    /\ \E pick \in [DOMAIN target -> {0} \cup DOMAIN source] :
                        /\ \A i \in DOMAIN target :
                             IF m(i) = {} THEN pick[i] = 0 ELSE pick[i] \in m(i)
                        /\ target' = [i \in DOMAIN target |->
                             IF pick[i] = 0 THEN target[i]
                             ELSE Assign(q, target[i], source[pick[i]], now)]
                        /\ rowcount' = Cardinality({i \in DOMAIN target : pick[i] # 0})
    /\ before' = target
    /\ run' = r
    /\ now' = now + 1
    /\ UNCHANGED <<source, autocommit, imports, nextId, cache, last, connVars, restVars>>

\* The first call, or the call repeated after the first has returned.
ExecUpdate ==
    /\ phase = "ready" \/ (phase = "inserted" /\ run = 1)
    /\ UpsertCalled(IF phase = "ready" THEN 1 ELSE 2)

\* Lines 166-176: the INSERT of the same call.
ExecInsert ==
    /\ phase = "updated"
    /\ LET rows == InsertRows(UpsertSql(uargs), target, source, now)
       IN  /\ target' = Appended(target, rows)
           /\ rowcount' = Cardinality(rows)
    /\ phase' = "inserted"
    /\ now' = now + 1
    /\ UNCHANGED <<source, before, uargs, col_list, run, autocommit, imports, nextId,
                   cache, last, connVars, restVars>>

UpsertNext == ExecUpdate \/ ExecInsert

(********************** a statement of upsert fails *************************)
\* As UpsertInit, on smaller tables and with either setting of autocommit
\* (from_yaml reads it from the configuration, lines 22 and 42).
FailInit ==
    /\ source \in Tables(MaxRows - 1)
    /\ \E t \in Tables(MaxRows - 1 - Len(source)) : target = Stored(t)
    /\ before = target
    /\ uargs \in UpsertArgs
    /\ col_list = ColList
    /\ phase = "ready"
    /\ run = 1
    /\ rowcount = 0
    /\ autocommit \in BOOLEAN
    /\ now = 1
    /\ imports = {}
    /\ nextId = 1
    /\ cache = <<>>
    /\ last = Called("init", NoExc)
    /\ ConnInit
    /\ RestIdle

\* Lines 88-164: the UPDATE of the first call raises in the server.  The
\* statements were built before, so col_list has been extended; upsert
\* propagates the error and its INSERT is not executed.
FailUpdate ==
    /\ phase = "ready"
    /\ col_list' = UpsertSql(uargs).col_list
    /\ phase' = "update failed"
    /\ rowcount' = -1
    /\ before' = target
    /\ now' = now + 1
    /\ UNCHANGED <<source, target, uargs, run, autocommit, imports, nextId, cache, last,
                   connVars, restVars>>

\* Lines 166-176: the INSERT of the first call raises.  With autocommit the
\* UPDATE is already committed; without it the UPDATE belongs to the
\* transaction the error aborts and is rolled back.
FailInsert ==
    /\ phase = "updated"
    /\ run = 1
    /\ target' = IF autocommit THEN target ELSE before
    /\ phase' = "insert failed"
    /\ rowcount' = -1
    /\ now' = now + 1
    /\ UNCHANGED <<source, before, uargs, col_list, run, autocommit, imports, nextId,
                   cache, last, connVars, restVars>>

\* The caller runs the upsert again after the failure.
Retry ==
    /\ phase \in {"update failed", "insert failed"}
    /\ UpsertCalled(3)

FailNext == ExecUpdate \/ ExecInsert \/ FailUpdate \/ FailInsert \/ Retry

\* An upsert one of whose statements may fail, and the call that follows it.
SpecUpsertFail == FailInit /\ [][FailNext]_vars

\* upsert called twice in a row with the same arguments, no other writer.
SpecUpsert == UpsertInit /\ [][UpsertNext]_vars

(************************* claims about upsert ******************************)
\* The functions col_functions configures for column c.
FnOf(c) == IF c \in DOMAIN uargs.col_functions THEN uargs.col_functions[c] ELSE <<>>

\* Rows t and s are the same logical record: their keys, under the key's
\* functions, are equal and not NULL.
SameKey(t, s) ==
    /\ ApplyAll(FnOf("k"), t.k) # Null
    /\ ApplyAll(FnOf("k"), t.k) = ApplyAll(FnOf("k"), s.k)

\* Rows t and s have identical non-key values (two NULLs are identical).
SameValues(t, s) == ApplyAll(FnOf("v"), t.v) = ApplyAll(FnOf("v"), s.v)

\* The rows the INSERT of the current call has added.
NewRows == {n \in DOMAIN target : n > Len(before)}

\* C7: after the UPDATE and the INSERT of an upsert, a target row matching
\* only source rows with identical values is untouched, a target row
\* matching one source row with different values holds that row's values
\* (and the time of the UPDATE when has_timestamps), and a source row
\* matching no target row has been inserted exactly once (with the time of
\* the INSERT in created_at and updated_at when has_timestamps).
C7_UpsertSyncsTarget ==
    (phase = "inserted" /\ run = 1) =>
        /\ \A i \in DOMAIN before :
             LET S == {j \in DOMAIN source : SameKey(before[i], source[j])}
             IN  /\ (S # {} /\ \A j \in S : SameValues(before[i], source[j]))
                       => target[i] = before[i]
                 /\ \A j \in S :
                       (S = {j} /\ ~SameValues(before[i], source[j])) =>
                           /\ target[i].k = ApplyAll(FnOf("k"), source[j].k)
                           /\ target[i].v = ApplyAll(FnOf("v"), source[j].v)
                           /\ uargs.has_timestamps => target[i].updated_at = now - 2
        /\ \A j \in DOMAIN source :
             (\A i \in DOMAIN before : ~SameKey(before[i], source[j])) =>
                 Cardinality({n \in NewRows :
                     /\ target[n].k = ApplyAll(FnOf("k"), source[j].k)
                     /\ target[n].v = ApplyAll(FnOf("v"), source[j].v)
                     /\ uargs.has_timestamps =>
                            /\ target[n].created_at = now - 1
                            /\ target[n].updated_at = now - 1}) = 1

\* The keys of source_table are not NULL and pairwise different.
DistinctKeys ==
    \A i, j \in DOMAIN source :
        /\ source[i].k # Null
        /\ i # j => ~SameKey(source[i], source[j])

\* C8: the second of two identical upsert calls against an unchanged source
\* changes no target row: its UPDATE matches no row and its INSERT inserts
\* none.  Stated for sources whose keys are pairwise different and not NULL.
C8_SecondRunChangesNothing ==
    (run = 2 /\ DistinctKeys) =>
        /\ phase # "failed"
        /\ rowcount = 0
        /\ target = before

KeyCount(tbl, key) == Cardinality({i \in DOMAIN tbl : tbl[i].k = key})

\* C9 as stated: after an upsert, every (non-NULL) uniqueness key that was in
\* the target before the call is on as many target rows as before.
C9_ExistingKeysNotDuplicated ==
    phase = "inserted" =>
        \A key \in Vals \ {Null} :
            KeyCount(before, key) > 0 => KeyCount(target, key) = KeyCount(before, key)

\* C9 as amended: the same, when no function is configured for the
\* uniqueness-key column.
C9_KeysKeptWithoutKeyFunction ==
    (phase = "inserted" /\ "k" \notin DOMAIN uargs.col_functions) =>
        \A key \in Vals \ {Null} :
            KeyCount(before, key) > 0 => KeyCount(target, key) = KeyCount(before, key)

\* An upsert without key functions has updated a row of an existing key and
\* inserted a new row.
C9_Witness ==
    /\ phase = "inserted"
    /\ "k" \notin DOMAIN uargs.col_functions
    /\ rowcount > 0
    /\ \E i \in DOMAIN before, j \in DOMAIN source :
         /\ before[i].k # Null
         /\ before[i].k = source[j].k
         /\ target[i].v # before[i].v

(***************************************************************************)
(* Part 3: the connection manager.  opened[i] is the .closed attribute of  *)
(* the i-th connection psycopg2.connect returned to this instance: 0 while *)
(* it is open, 1 once closed, 2 once the driver has found it broken.       *)
(***************************************************************************)
OperationalError == "psycopg2.OperationalError"
AttributeError == "AttributeError: 'NoneType' object has no attribute 'close'"

\* Lines 69-71
IsConnected(c, o) == c # None /\ o[c] = 0

\* connection.close() of the driver
ConnClose(o, c) == [o EXCEPT ![c] = 1]

\* Lines 90-97
Close(c, o) ==
    IF c = None THEN [conn |-> c, opened |-> o, exc |-> AttributeError]
    ELSE [conn |-> c, opened |-> ConnClose(o, c), exc |-> NoExc]

\* The mutant of Connect that leaves the connection it replaces open.
ConnectLeaksOld(c, o, ok) ==
    IF ok THEN [conn |-> Len(o) + 1, opened |-> Append(o, 0), exc |-> NoExc]
    ELSE [conn |-> c, opened |-> o, exc |-> OperationalError]

\* Lines 73-88; ok is whether psycopg2.connect succeeds.
Connect(c, o, ok) ==
    LET closed == IF IsConnected(c, o) THEN Close(c, o).opened ELSE o
    IN  IF ok
        THEN [conn |-> Len(closed) + 1, opened |-> Append(closed, 0), exc |-> NoExc]
        ELSE [conn |-> c, opened |-> closed, exc |-> OperationalError]

\* Lines 99-104: the connection state after the call, the cursor returned
\* and whether the call reconnected.
NewCursor(c, o, ok) ==
    IF IsConnected(c, o)
    THEN [conn |-> c, opened |-> o, exc |-> NoExc, reconnected |-> FALSE,
          cursor |-> [of |-> c, closed |-> FALSE]]
    ELSE LET r == Connect(c, o, ok)
         IN  [conn |-> r.conn, opened |-> r.opened, exc |-> r.exc,
              reconnected |-> TRUE,
              cursor |-> IF r.exc = NoExc THEN [of |-> r.conn, closed |-> FALSE]
                         ELSE NoCursor]

\* A call may open a connection only while fewer than MaxConns were opened.
MayOpen(ok) == ok => Len(opened) < MaxConns

CallConnect(ok) ==
    /\ MayOpen(ok)
    /\ LET r == Connect(conn, opened, ok)
       IN  /\ conn' = r.conn
           /\ opened' = r.opened
           /\ cdone' = [op |-> "connect", exc |-> r.exc, reconnected |-> FALSE]
    /\ UNCHANGED <<cur, ledgerVars, upsertVars, restVars>>

CallClose ==
    /\ LET r == Close(conn, opened)
       IN  /\ conn' = r.conn
           /\ opened' = r.opened
           /\ cdone' = [op |-> "close", exc |-> r.exc, reconnected |-> FALSE]
    /\ UNCHANGED <<cur, ledgerVars, upsertVars, restVars>>

CallNewCursor(ok) ==
    /\ MayOpen(ok)
    /\ LET r == NewCursor(conn, opened, ok)
       IN  /\ conn' = r.conn
           /\ opened' = r.opened
           /\ cur' = IF r.exc = NoExc THEN r.cursor ELSE cur
           /\ cdone' = [op |-> "new_cursor", exc |-> r.exc,
                        reconnected |-> r.reconnected]
    /\ UNCHANGED <<ledgerVars, upsertVars, restVars>>

\* What the driver raises when it finds the connection gone.
ConnectionLost == "psycopg2.OperationalError: server closed the connection"

\* How the statement run inside a with block ends: it succeeds, it raises
\* with the connection intact, or it raises because the connection is lost.
StatementOutcomes == {"ok", "error", "lost"}

\* The mutant of WithNewCursor that closes the cursor on normal exit only.
WithNewCursorLeaksOnError(c, o, ok, outcome) ==
    LET r == NewCursor(c, o, ok)
    IN  IF r.exc # NoExc
        THEN [conn |-> r.conn, opened |-> r.opened, exc |-> r.exc,
              reconnected |-> r.reconnected, acquired |-> FALSE,
              cursor |-> NoCursor]
        ELSE [conn |-> r.conn,
              opened |-> IF outcome = "lost"
                         THEN [r.opened EXCEPT ![r.conn] = 2] ELSE r.opened,
              exc |-> CASE outcome = "ok" -> NoExc
                        [] outcome = "lost" -> ConnectionLost
                        [] OTHER -> DriverError,
              reconnected |-> r.reconnected, acquired |-> TRUE,
              cursor |-> [r.cursor EXCEPT !.closed = (outcome = "ok")]]

\* 'with self.new_cursor() as cursor: cursor.<statement>': when new_cursor
\* raises no cursor was acquired; otherwise the statement ends in one of
\* StatementOutcomes (a lost connection is recorded in .closed by the
\* driver) and the cursor's __exit__ closes the cursor on every path.
WithNewCursor(c, o, ok, outcome) ==
    LET r == NewCursor(c, o, ok)
    IN  IF r.exc # NoExc
        THEN [conn |-> r.conn, opened |-> r.opened, exc |-> r.exc,
              reconnected |-> r.reconnected, acquired |-> FALSE,
              cursor |-> NoCursor]
        ELSE [conn |-> r.conn,
              opened |-> IF outcome = "lost"
                         THEN [r.opened EXCEPT ![r.conn] = 2] ELSE r.opened,
              exc |-> CASE outcome = "ok" -> NoExc
                        [] outcome = "lost" -> ConnectionLost
                        [] OTHER -> DriverError,
              reconnected |-> r.reconnected, acquired |-> TRUE,
              cursor |-> [r.cursor EXCEPT !.closed = TRUE]]

\* A call whose body is one such with block.
CallScoped(op, ok, outcome) ==
    /\ MayOpen(ok)
    /\ LET w == WithNewCursor(conn, opened, ok, outcome)
       IN  /\ conn' = w.conn
           /\ opened' = w.opened
           /\ cur' = IF w.acquired THEN w.cursor ELSE cur
           /\ cdone' = [op |-> op, exc |-> w.exc, reconnected |-> w.reconnected]
    /\ UNCHANGED <<ledgerVars, upsertVars, restVars>>

\* Lines 106-117
CallExecuteSql(ok, outcome) == CallScoped("execute_sql", ok, outcome)

ConnNext ==
    \/ \E ok \in BOOLEAN : CallConnect(ok)
    \/ CallClose
    \/ \E ok \in BOOLEAN : CallNewCursor(ok)
    \/ \E ok \in BOOLEAN, outcome \in StatementOutcomes : CallExecuteSql(ok, outcome)

\* Any sequence of connect, close, new_cursor and execute_sql on one instance.
SpecConn == Init /\ [][ConnNext]_vars

\* The other calls that hold a cursor for one statement: execute_copy
\* (lines 182-184), update_media_imports (lines 323-325) and the two steps of
\* Executive (src/executive.py lines 16-24).
ScopedOps == {"execute_copy", "update_media_imports", "do_sql1", "do_sql2"}

CursorNext ==
    \/ ConnNext
    \/ \E op \in ScopedOps, ok \in BOOLEAN, outcome \in StatementOutcomes :
           CallScoped(op, ok, outcome)

\* Any sequence of calls on the connection manager, Executive's included.
SpecCursor == Init /\ [][CursorNext]_vars

\* C10: at most one connection the instance opened is open, and it is the
\* one self.conn holds; a cursor new_cursor has just returned belongs to
\* that open connection, whether or not the call had to reconnect.
C10_OneLiveConnection ==
    /\ \A i \in DOMAIN opened : opened[i] = 0 => i = conn
    /\ (cdone.op = "new_cursor" /\ cdone.exc = NoExc) =>
           /\ cur # NoCursor
           /\ cur.of = conn
           /\ opened[cur.of] = 0
           /\ ~cur.closed

\* new_cursor has reconnected after an earlier connection was closed.
C10_Witness ==
    /\ cdone = [op |-> "new_cursor", exc |-> NoExc, reconnected |-> TRUE]
    /\ Len(opened) >= 2
    /\ opened[1] = 1
    /\ cur.of = Len(opened)

\* C11: a call that runs its statement inside a with block has released the
\* cursor it acquired when it exits, whether the statement returned or
\* raised, and the connection is still open unless the driver found it lost.
C11_CursorsReleased ==
    /\ \A ok \in BOOLEAN, outcome \in StatementOutcomes :
           LET w == WithNewCursor(conn, opened, ok, outcome)
           IN  w.acquired =>
                   /\ w.cursor.closed
                   /\ w.cursor.of = w.conn
                   /\ outcome # "lost" => w.opened[w.conn] = 0
    /\ (cdone.op \in ScopedOps \cup {"execute_sql"} /\ cdone.exc # OperationalError) =>
           /\ cur.closed
           /\ cur.of = conn
           /\ cdone.exc # ConnectionLost => opened[conn] = 0

\* execute_copy raised on an open connection and its cursor is closed.
C11_Witness ==
    /\ cdone.op = "execute_copy"
    /\ cdone.exc = DriverError
    /\ cur # NoCursor
    /\ cur.closed
    /\ opened[cur.of] = 0

(********************* more claims about the ledger *************************)
\* C12: for an identity with one ledger record, update_media_import with any
\* status raises nothing, returns that record's id and overwrites its status
\* in place, stamping time_imported with the clock when the status is
\* STARTED; no other field and no other row changes.
C12_ExistingRecordUpdated ==
    \A s \in DataSources, f \in FileNames, d \in FileDates, st \in Statuses :
        Cardinality(SelectIds(imports, Upper(s), f)) = 1 =>
            LET id == CHOOSE i \in SelectIds(imports, Upper(s), f) : TRUE
                u == UpdateMediaImport(imports, nextId, cache, now, s, f, d, st, "")
            IN  /\ u.exc = NoExc
                /\ u.ret = id
                /\ u.tbl = {IF r.id # id THEN r
                            ELSE [r EXCEPT !.status = st,
                                           !.time_imported =
                                               IF st = "STARTED" THEN now ELSE @]
                            : r \in imports}

\* C13: the status of every stored import record is one of STARTED, SUCCESS,
\* FAIL, SKIPPED and UNKNOWN.
C13_StatusInDomain ==
    \A r \in imports : r.status \in Statuses

KeyError == "KeyError"

Text(s) == [param |-> FALSE, s |-> s]
Param(name) == [param |-> TRUE, s |-> name]

\* The placeholders a query names.
Names(query) ==
    UNION {{query[i].toks[j].s :
               j \in {n \in DOMAIN query[i].toks : query[i].toks[n].param}}
           : i \in DOMAIN query}

\* How the driver adapts a string argument.
Adapt(v) == "'" \o v \o "'"

\* The text of a line: with arguments each placeholder is replaced by its
\* adapted value, without arguments the line is taken as it stands.
RECURSIVE LineText(_, _)
LineText(toks, q_vars) ==
    IF toks = <<>> THEN ""
    ELSE LET t == Head(toks)
             piece == IF ~t.param THEN t.s
                      ELSE IF q_vars.given THEN Adapt(q_vars.map[t.s])
                      ELSE "%(" \o t.s \o ")s"
         IN  piece \o LineText(Tail(toks), q_vars)

\* cursor.mogrify(query, q_vars): the driver formats the query only when it
\* is given arguments, and a placeholder the mapping lacks is a KeyError.
Mogrify(query, q_vars) ==
    IF q_vars.given /\ ~(Names(query) \subseteq DOMAIN q_vars.map)
    THEN [exc |-> KeyError, lines |-> <<>>]
    ELSE [exc |-> NoExc,
          lines |-> [i \in DOMAIN query |->
                        [indent |-> query[i].indent,
                         text |-> LineText(query[i].toks, q_vars)]]]

\* textwrap.dedent: the indentation common to the lines that are not blank is
\* removed from every line, and a blank line loses all of its own.
Dedent(lines) ==
    LET full == {i \in DOMAIN lines : lines[i].text # ""}
        margin == IF full = {} THEN 0
                  ELSE CHOOSE m \in {lines[i].indent : i \in full} :
                           \A i \in full : m <= lines[i].indent
    IN  [i \in DOMAIN lines |->
            [indent |-> IF i \in full THEN lines[i].indent - margin ELSE 0,
             text |-> lines[i].text]]

\* Lines 9-12: [exc, sent, final_sql]; accepted is whether the server runs
\* the statement it is sent.
Execute(query, q_vars, accepted) ==
    LET m == Mogrify(query, q_vars)
    IN  IF m.exc # NoExc
        THEN [exc |-> m.exc, sent |-> FALSE, final_sql |-> <<>>]
        ELSE [exc |-> IF accepted THEN NoExc ELSE ProgrammingError,
              sent |-> TRUE, final_sql |-> Dedent(m.lines)]

Queries ==
    {<<[indent |-> 0, toks |-> <<Text("SELECT 1")>>]>>,
     <<[indent |-> 2, toks |-> <<Text("DROP TABLE "), Param("a")>>]>>,
     <<[indent |-> 4, toks |-> <<Text("SELECT "), Param("a")>>],
       [indent |-> 8, toks |-> <<Text("WHERE x = "), Param("b")>>],
       [indent |-> 6, toks |-> <<>>]>>}

QVars ==
    {NoParams,
     [given |-> TRUE, map |-> <<>>],
     [given |-> TRUE, map |-> [n \in {"a"} |-> "t"]],
     [given |-> TRUE, map |-> [n \in {"a", "b"} |-> IF n = "a" THEN "t" ELSE "u"]]}

CallExecute(query, q_vars, accepted) ==
    LET e == Execute(query, q_vars, accepted)
    IN  /\ e.sent => Len(wire) < MaxSent
        /\ wire' = IF e.sent THEN Append(wire, e.final_sql) ELSE wire
        /\ rdone' = [op |-> "execute", query |-> query, q_vars |-> q_vars,
                     exc |-> e.exc, sent |-> e.sent]
        /\ UNCHANGED <<ledgerVars, upsertVars, connVars, raceVars>>

RenderNext ==
    \E query \in Queries, q_vars \in QVars, accepted \in BOOLEAN :
        CallExecute(query, q_vars, accepted)

\* Any sequence of execute calls on one cursor.
SpecRender == Init /\ [][RenderNext]_vars

\* C15: an execute whose query names a placeholder that the arguments given,
\* or the absence of arguments, leave without a value raises the
\* missing-parameter error (the driver's KeyError) and sends nothing.
C15_MissingParamRaises ==
    (rdone.op = "execute"
        /\ \E n \in Names(rdone.query) :
               ~rdone.q_vars.given \/ n \notin DOMAIN rdone.q_vars.map)
    => (rdone.exc = KeyError /\ ~rdone.sent)

\* C16: upsert runs its UPDATE before its INSERT with no transaction around
\* them.  On a connection with autocommit: when the UPDATE raises, nothing
\* was inserted and the target is as before; when the INSERT raises, no row
\* was lost or added and every row that differs from before holds the
\* values of a source row of its key; and the upsert run again after the
\* failure executes both statements and leaves every source key in the
\* target.
C16_FailureLeavesPartialSync ==
    autocommit =>
        /\ phase = "update failed" => target = before
        /\ phase = "insert failed" =>
               /\ Len(target) = Len(before)
               /\ \A i \in DOMAIN before :
                      \/ target[i] = before[i]
                      \/ \E j \in DOMAIN source :
                             /\ SameKey(before[i], source[j])
                             /\ target[i].k = ApplyAll(FnOf("k"), source[j].k)
                             /\ target[i].v = ApplyAll(FnOf("v"), source[j].v)
        /\ run = 3 =>
               /\ phase # "failed"
               /\ phase = "inserted" =>
                      \A j \in DOMAIN source :
                          source[j].k # Null =>
                              \E i \in DOMAIN target : SameKey(target[i], source[j])

(***************************************************************************)
(* Part 5: two processes, each with a DbConnection and so a cache of its   *)
(* own, call update_media_import for file a.csv on the same imports table. *)
(* Every statement a call issues is one step; the steps of the two calls   *)
(* interleave freely.                                                       *)
(***************************************************************************)
Procs == {1, 2}
RaceFile == "a.csv"
RaceDate == "2017-01-01"

\* Each process has entered update_media_import with arguments of its own.
RaceInit ==
    /\ procs \in [Procs -> [pc : {"called"}, data_source : DataSources,
                            status : {"STARTED", "SUCCESS"}, import_id : {None},
                            cache : {<<>>}, inserted : {FALSE}, exc : {NoExc}]]
    /\ peers = <<>>
    /\ LedgerInit
    /\ UpsertIdle
    /\ ConnInit
    /\ RenderIdle

\* Lines 268-270 and the branch taken at lines 272, 293 and 298.
RaceLookup(p) ==
    LET me == procs[p]
        g == GetMediaImportId(imports, me.cache, Upper(me.data_source), RaceFile)
    IN  /\ me.pc = "called"
        /\ procs' = [procs EXCEPT ![p] =
              [me EXCEPT !.cache = g.cache,
                         !.import_id = g.ret,
                         !.exc = IF g.exc # NoExc THEN g.exc
                                 ELSE IF g.ret = None /\ ~MayCreate(g.ret, me.status)
                                 THEN NoRecordYet ELSE NoExc,
                         !.pc = IF g.exc # NoExc THEN "done"
                                ELSE IF MayCreate(g.ret, me.status) THEN "insert"
                                ELSE IF g.ret = None THEN "done"
                                ELSE "update"]]
        /\ UNCHANGED <<ledgerVars, upsertVars, connVars, renderVars, peers>>

\* Lines 274-289
RaceInsert(p) ==
    LET me == procs[p]
    IN  /\ me.pc = "insert"
        /\ nextId <= MaxId + MaxExternal
        /\ imports' = InsertImport(imports, nextId, RaceFile, Upper(me.data_source),
                                   RaceDate, Upper(me.status), "")
        /\ nextId' = nextId + 1
        /\ procs' = [procs EXCEPT ![p] = [me EXCEPT !.pc = "lookup", !.inserted = TRUE]]
        /\ UNCHANGED <<cache, now, last, upsertVars, connVars, renderVars, peers>>

\* Lines 291-292
RaceRelookup(p) ==
    LET me == procs[p]
        g == GetMediaImportId(imports, me.cache, Upper(me.data_source), RaceFile)
    IN  /\ me.pc = "lookup"
        /\ procs' = [procs EXCEPT ![p] =
              [me EXCEPT !.cache = g.cache, !.import_id = g.ret, !.exc = g.exc,
                         !.pc = "done"]]
        /\ UNCHANGED <<ledgerVars, upsertVars, connVars, renderVars, peers>>

\* Lines 298-314
RaceUpdate(p) ==
    LET me == procs[p]
    IN  /\ me.pc = "update"
        /\ imports' = UpdateStatus(imports, me.import_id, me.status, now)
        /\ procs' = [procs EXCEPT ![p] = [me EXCEPT !.pc = "done"]]
        /\ UNCHANGED <<nextId, cache, now, last, upsertVars, connVars, renderVars, peers>>

RaceNext ==
    \E p \in Procs :
        \/ RaceLookup(p)
        \/ RaceInsert(p)
        \/ RaceRelookup(p)
        \/ RaceUpdate(p)

SpecLedgerRace == RaceInit /\ [][RaceNext]_vars

\* C17: when two processes have both inserted a row for the same identity,
\* the table holds two rows for it, and the lookup that follows the insert
\* in either process then raises the ambiguous-record error and yields no id.
C17_RaceInsertsTwice ==
    \A p \in Procs, q \in Procs :
        (/\ p # q
         /\ procs[p].inserted
         /\ procs[q].inserted
         /\ Upper(procs[p].data_source) = Upper(procs[q].data_source))
        => /\ Ambiguous(imports, procs[p].data_source, RaceFile)
           /\ procs[p].pc = "lookup" =>
                  GetMediaImportId(imports, procs[p].cache,
                                   Upper(procs[p].data_source), RaceFile)
                      = [ret |-> None, exc |-> MultipleRecords, cache |-> procs[p].cache]

\* Both processes found no record and inserted one, and the lookup after the
\* insert has raised in one of them.
C17_Witness ==
    /\ \A p \in Procs : /\ procs[p].inserted
                        /\ procs[p].data_source = "COMSCORE"
                        /\ procs[p].status = "STARTED"
    /\ Cardinality(SelectIds(imports, "COMSCORE", RaceFile)) = 2
    /\ \E p \in Procs : procs[p].pc = "done" /\ procs[p].exc = MultipleRecords
                          /\ procs[p].import_id = None

(***************************************************************************)
(* Part 6: two cursors on connections of their own run upsert against the  *)
(* same target table, each from a staging table of its own.  A statement   *)
(* reads the rows committed when it starts; the rows an INSERT .. SELECT   *)
(* adds become visible to the other connection when the statement ends.    *)
(* Nothing in upsert locks the target between or within its statements.    *)
(***************************************************************************)
Peers == {1, 2}
MaxPeerRows == 1

\* Both cursors are about to call upsert with the same arguments.
PeerInit ==
    /\ peers \in [Peers -> [pc : {"called"}, source : Tables(MaxPeerRows),
                            rows : {{}}]]
    /\ \E t \in Tables(MaxPeerRows) : target = Stored(t)
    /\ before = target
    /\ uargs \in {a \in UpsertArgs : a.col_functions = <<>>}
    /\ source = <<>>
    /\ col_list = ColList
    /\ phase = "ready"
    /\ run = 1
    /\ rowcount = 0
    /\ autocommit = DEFAULT_AUTOCOMMIT
    /\ now = 1
    /\ imports = {}
    /\ nextId = 1
    /\ cache = <<>>
    /\ last = Called("init", NoExc)
    /\ procs = <<>>
    /\ ConnInit
    /\ RenderIdle

\* Lines 154-164: the UPDATE of cursor p.
PeerUpdate(p) ==
    LET me == peers[p]
        q == UpsertSql(uargs)
        m(i) == UpdateMatches(q, target[i], me.source, now)
    IN  /\ me.pc = "called"
        /\ \E pick \in [DOMAIN target -> {0} \cup DOMAIN me.source] :
             /\ \A i \in DOMAIN target :
                  IF m(i) = {} THEN pick[i] = 0 ELSE pick[i] \in m(i)
             /\ target' = [i \in DOMAIN target |->
                  IF pick[i] = 0 THEN target[i]
                  ELSE Assign(q, target[i], me.source[pick[i]], now)]
        /\ peers' = [peers EXCEPT ![p] = [me EXCEPT !.pc = "updated"]]
        /\ now' = now + 1
        /\ UNCHANGED <<source, before, uargs, col_list, phase, run, rowcount, autocommit,
                       imports, nextId, cache, last, connVars, renderVars, procs>>

\* Lines 170-173: the SELECT of the INSERT of cursor p reads the target.
PeerSelect(p) ==
    LET me == peers[p]
    IN  /\ me.pc = "updated"
        /\ peers' = [peers EXCEPT ![p] =
              [me EXCEPT !.pc = "selected",
                         !.rows = InsertRows(UpsertSql(uargs), target, me.source, now)]]
        /\ now' = now + 1
        /\ UNCHANGED <<imports, nextId, cache, last, upsertVars, connVars, renderVars,
                       procs>>

\* The mutant of Inserted that leaves out a row whose key another writer has
\* inserted since the SELECT.
InsertedUnlessPresent(tgt, rows) ==
    Appended(tgt, {r \in rows : \A i \in DOMAIN tgt : tgt[i].k # r.k})

\* Line 169: INSERT INTO target the rows selected.
Inserted(tgt, rows) ==
    Appended(tgt, rows)

\* Lines 166-176: the INSERT of cursor p ends and its rows are in the target.
PeerInsert(p) ==
    LET me == peers[p]
    IN  /\ me.pc = "selected"
        /\ target' = Inserted(target, me.rows)
        /\ peers' = [peers EXCEPT ![p] = [me EXCEPT !.pc = "inserted"]]
        /\ UNCHANGED <<source, before, uargs, col_list, phase, run, rowcount, autocommit,
                       ledgerVars, connVars, renderVars, procs>>

PeerNext ==
    \E p \in Peers :
        \/ PeerUpdate(p)
        \/ PeerSelect(p)
        \/ PeerInsert(p)

SpecUpsertRace == PeerInit /\ [][PeerNext]_vars

\* C18: when the INSERT statements of two concurrent upserts have both
\* selected a row of the same uniqueness key, both insert it: once both have
\* ended the target holds at least two rows for that key.
C18_BothInsertsAddKey ==
    (\A p \in Peers : peers[p].pc = "inserted") =>
        \A key \in Vals \ {Null} :
            (\A p \in Peers : \E r \in peers[p].rows : r.k = key)
                => KeyCount(target, key) >= 2

\* Both upserts have ended, and a key that was not in the target before
\* them is on two rows, one inserted by each.
C18_Witness ==
    /\ \A p \in Peers : peers[p].pc = "inserted"
    /\ \E key \in Vals \ {Null} :
         /\ KeyCount(before, key) = 0
         /\ KeyCount(target, key) = 2
         /\ \A p \in Peers :
              /\ \E j \in DOMAIN peers[p].source : peers[p].source[j].k = key
              /\ \E r \in peers[p].rows : r.k = key

(***************************************************************************)
(* The text of the expressions upsert generates.                           *)
(***************************************************************************)
\* Lines 88-94 and 108-119: '{}.{}'.format(table, col), then
\* '{}({})'.format(function, x) for each function in turn.
RECURSIVE Wrapped(_, _)
Wrapped(fns, x) ==
    IF fns = <<>> THEN x
    ELSE Wrapped(Tail(fns), Head(fns) \o "(" \o x \o ")")

SqlText(e) ==
    IF e = GetDate THEN e.col ELSE Wrapped(e.fns, e.tbl \o "." \o e.col)

\* fn(...f1(x)...), written from the outermost function inwards.
RECURSIVE Nested(_, _)
Nested(fns, x) ==
    IF fns = <<>> THEN x
    ELSE fns[Len(fns)] \o "(" \o Nested(SubSeq(fns, 1, Len(fns) - 1), x) \o ")"

\* C19: for every column with configured functions [f1, .., fn] the
\* generated expression is fn(...f1(col)...); both sides of every uniqueness
\* and identical-row predicate carry the same wrapping, and an update clause
\* assigns the wrapped source column to the bare column name.
C19_FunctionsWrapInnermostFirst ==
    LET q == UpsertSql(uargs)
        t == uargs.target_table
    IN  /\ \A i \in DOMAIN uargs.col_list :
             LET c == uargs.col_list[i]
             IN  /\ SqlText(q.identical_row_predicate[i][1]) = Nested(FnOf(c), t \o "." \o c)
                 /\ SqlText(q.identical_row_predicate[i][2]) = Nested(FnOf(c), "s." \o c)
                 /\ q.update_clause[i][1] = c
                 /\ SqlText(q.update_clause[i][2]) = Nested(FnOf(c), "s." \o c)
        /\ \A i \in DOMAIN uargs.uniqueness_keys :
             LET c == uargs.uniqueness_keys[i]
             IN  /\ SqlText(q.unique_predicates[i][1]) = Nested(FnOf(c), t \o "." \o c)
                 /\ SqlText(q.unique_predicates[i][2]) = Nested(FnOf(c), "s." \o c)
        /\ FnOf("k") = <<"UPPER", "LOWER">> =>
             /\ SqlText(q.unique_predicates[1][1]) = "LOWER(UPPER(target.k))"
             /\ SqlText(q.unique_predicates[1][2]) = "LOWER(UPPER(s.k))"
             /\ SqlText(q.update_clause[2][2]) = "LOWER(UPPER(s.v))"

\* An upsert with two functions on each column has inserted a row: the key
\* 'AB' of the source went through UPPER and then LOWER.
C19_Witness ==
    /\ phase = "inserted"
    /\ run = 1
    /\ FnOf("k") = <<"UPPER", "LOWER">>
    /\ \E n \in NewRows, j \in DOMAIN source :
         /\ source[j].k = "AB"
         /\ target[n].k = "ab"

(***************************************************************************)
(* The frame of the ledger writes.                                         *)
(***************************************************************************)
\* The record of tbl with the id of r.
SameId(tbl, r) == {n \in tbl : n.id = r.id}

\* Record r keeps its id and its time_imported in tbl.
KeepsTime(tbl, r) ==
    \E n \in SameId(tbl, r) : n.time_imported = r.time_imported

\* C20: time_imported of a record changes only by an update_media_import of
\* that record's identity to STARTED; update_media_imports and calls for
\* another identity leave it unchanged; and an update_media_import for an
\* identity that has a record changes no other record and creates no row.
C20_TimeImportedFrame ==
    /\ \A s \in DataSources, f \in FileNames, st \in Statuses :
         LET u == UpdateMediaImport(imports, nextId, cache, now, s, f,
                                    "2017-01-01", st, "")
             mine(r) == r.source = Upper(s) /\ r.file_name = f
         IN  /\ \A r \in imports :
                  (st # "STARTED" \/ ~mine(r)) => KeepsTime(u.tbl, r)
             /\ (\E r \in imports : mine(r)) =>
                  /\ Cardinality(u.tbl) = Cardinality(imports)
                  /\ \A r \in imports : ~mine(r) => r \in u.tbl
    /\ \A ids \in SUBSET (1..(MaxId + MaxExternal)), st \in Statuses :
         \A r \in imports : KeepsTime(UpdateStatusIn(imports, ids, st), r)

(***************************************************************************)
(* The identity cache of one DbConnection.                                 *)
(***************************************************************************)
\* C21: on one connection working alone, every id get_media_import_id
\* returns is the id of a stored record with the source and the file name
\* that were looked up.
C21_LookupReturnsOwnRecord ==
    \A s \in DataSources, f \in FileNames :
        LET g == GetMediaImportId(imports, cache, s, f)
        IN  g.ret # None =>
                \E r \in imports : /\ r.id = g.ret
                                   /\ r.source = Upper(s)
                                   /\ r.file_name = f

(***************************************************************************)
(* The arguments of upsert.                                                *)
(***************************************************************************)
\* C22: upsert leaves the caller's col_list as it was, whatever
\* has_timestamps is, and a call repeated with the same list object
\* generates the statements of the first call.
C22_ColListUnchanged ==
    /\ col_list = ColList
    /\ run = 2 => UpsertSql(uargs) = UpsertSql([uargs EXCEPT !.col_list = ColList])

(***************************************************************************)
(* The status run_ingest_queries writes.                                   *)
(***************************************************************************)
\* C23: whichever way execute_sql_file ends, every record
\* run_ingest_queries writes is left with status SUCCESS or FAIL, never with
\* the placeholder UNKNOWN.
C23_IngestNeverWritesUnknown ==
    \A s \in DataSources, o \in Outcomes, fs \in FileLists :
        LET r == RunIngestQueries(imports, nextId, cache, now, s, o, fs)
        IN  \A rec \in r.tbl \ imports : rec.status \in {"SUCCESS", "FAIL"}

====
